---- MODULE Spec2Model ----
(***************************************************************************)
(* Model of the hookbase Go client: construction (New, NewWebhook), the    *)
(* request transport (transport.do, backoff, mapError) and the error       *)
(* taxonomy.  Text values that the code parses (Retry-After, secrets) are  *)
(* sequences of one-character strings; durations are whole seconds unless  *)
(* a name says milliseconds.                                               *)
(***************************************************************************)
EXTENDS Integers, Sequences, FiniteSets, TLC

\* ------------------------------------------------------------------ bounds
\* Largest retry count a caller passes to WithMaxRetries / WithRequestRetries.
MaxRetryOpt == 1

\* Verifications of one delivery.
MaxChecks == 2

\* The largest attempt index a backoff is computed for.
MaxAttemptIndex == 64

\* ------------------------------------------------------- program constants
defaultTimeout == 30
defaultMaxRetries == 3
defaultRetryAfter == 60
backoffCapMs == 10000
backoffUnitMs == 1000

\* The bits of an int, and the nanoseconds of time.Millisecond.
Width == 64
Millisecond == 1000000

\* ------------------------------------------------------------------- state
VARIABLES
    client,      \* "none" before New, "panic" after an aborted New, else the transport record
    wh,          \* "none" before NewWebhook, "panic" after an aborted one, else the Webhook record
    pc,          \* position of the one logical call: idle, loop, sleep, done
    rc,          \* requestConfig of the call
    req,         \* the call's arguments that transport.do reads on every attempt
    maxRetries,  \* the local maxRetries of transport.do
    attempt,     \* loop index of transport.do
    lastErr,     \* the local lastErr of transport.do
    result,      \* what transport.do returned
    ctxErr,      \* ctx.Err() as text, "" while the context is live
    firedIn,     \* where the call was when ctx fired: loop, dispatch or sleep
    dispatches,  \* number of httpClient.Do calls of this call
    fails500,    \* number of dispatches of this call answered by a 500 response
    last,        \* full outcome of the latest dispatch, and ctx.Err() when it ended
    slept,       \* sleeps started since the latest dispatch
    called,      \* the argument each constructor was called with
    meIn,        \* arguments handed to mapError (direct application)
    meOut,       \* what that application returned
    now,         \* time.Now().Unix()
    sent,        \* the GenerateTestHeaders call that made the delivery, and its result
    delivery,         \* the delivery as the receiver holds it: payload, header map, edit made
    checks,      \* the verifications made so far: inputs, clock reading, outcome
    callerBody,  \* the value behind the body argument, which the caller still holds
    wires        \* the distinct requests this call has handed to httpClient.Do

hookVars == <<now, sent, delivery, checks>>

vars == <<client, wh, called, pc, rc, req, maxRetries, attempt, lastErr, result,
          ctxErr, firedIn, dispatches, fails500, last, slept, meIn, meOut, hookVars,
          callerBody, wires>>

callVars == <<pc, rc, req, maxRetries, attempt, lastErr, result,
              ctxErr, firedIn, dispatches, fails500, last, slept, callerBody, wires>>

None == [kind |-> "none"]

\* ---------------------------------------------------------- error taxonomy
\* The error values of errors.go.  Every API error kind embeds APIError.
BaseError(message) == [kind |-> "Error", message |-> message]

NetworkError(message) == [kind |-> "NetworkError", message |-> message]

TimeoutError(message) == [kind |-> "TimeoutError", message |-> message]

APIError(kind, message, status, code, requestID, validationErrors, retryAfter) ==
    [kind |-> kind, message |-> message, status |-> status, code |-> code,
     requestID |-> requestID, validationErrors |-> validationErrors,
     retryAfter |-> retryAfter]

\* A nil map[string][]string; a non-nil one is a set of <<field, messages>>.
NilMap == {}

\* ------------------------------------------------------------ strconv.Atoi
DigitChars == <<"0", "1", "2", "3", "4", "5", "6", "7", "8", "9">>

IsDigit(c) == \E i \in 1..10 : DigitChars[i] = c

DigitVal(c) == (CHOOSE i \in 1..10 : DigitChars[i] = c) - 1

RECURSIVE DigitsVal(_)
DigitsVal(s) ==
    IF s = <<>> THEN 0
    ELSE 10 * DigitsVal(SubSeq(s, 1, Len(s) - 1)) + DigitVal(s[Len(s)])

\* Atoi(s): [ok, v]; an optional sign followed by at least one decimal digit.
Atoi(s) ==
    LET signed == s # <<>> /\ s[1] \in {"+", "-"}
        digits == IF signed THEN Tail(s) ELSE s
    IN  IF digits # <<>> /\ \A i \in 1..Len(digits) : IsDigit(digits[i])
        THEN [ok |-> TRUE,
              v  |-> IF signed /\ s[1] = "-" THEN 0 - DigitsVal(digits)
                     ELSE DigitsVal(digits)]
        ELSE [ok |-> FALSE, v |-> 0]

\* ---------------------------------------------------------------- mapError
\* The zero value of the anonymous errBody struct.
ZeroErrBody ==
    [valid |-> FALSE, errMessage |-> "", errCode |-> "",
     validationErrors |-> NilMap, message |-> "", code |-> ""]

\* json.Unmarshal(body, &errBody): a body that is not JSON leaves the zero value.
DecodeErrBody(body) == IF body.valid THEN body ELSE ZeroErrBody

\* Variant: the Retry-After header is not consulted.
retryAfterOfIgnoringHeader(headers) == defaultRetryAfter

\* The Retry-After branch of mapError (case 429).
retryAfterOf(headers) ==
    LET ra == headers.retryAfter
    IN  IF ra # <<>> /\ Atoi(ra).ok THEN Atoi(ra).v ELSE defaultRetryAfter

\* Variant: 422 is missing from the ValidationError case.
kindOfWithout422(status) ==
    CASE status = 401 -> "AuthenticationError"
      [] status = 403 -> "ForbiddenError"
      [] status = 404 -> "NotFoundError"
      [] status = 400 -> "ValidationError"
      [] status = 429 -> "RateLimitError"
      [] OTHER -> "APIError"

\* The case selection of mapError's switch on status.
kindOf(status) ==
    CASE status = 401 -> "AuthenticationError"
      [] status = 403 -> "ForbiddenError"
      [] status = 404 -> "NotFoundError"
      [] status \in {400, 422} -> "ValidationError"
      [] status = 429 -> "RateLimitError"
      [] OTHER -> "APIError"

mapError(status, body, requestID, headers) ==
    LET errBody == DecodeErrBody(body)
        msg1 == IF errBody.errMessage = "" THEN errBody.message ELSE errBody.errMessage
        msg  == IF msg1 = "" THEN "API error: " \o ToString(status) ELSE msg1
        code1 == IF errBody.errCode = "" THEN errBody.code ELSE errBody.errCode
        code == IF code1 = "" THEN "unknown_error" ELSE code1
        kind == kindOf(status)
    IN  APIError(kind, msg, status, code, requestID,
                 IF kind = "ValidationError" THEN errBody.validationErrors ELSE NilMap,
                 IF kind = "RateLimitError" THEN retryAfterOf(headers) ELSE 0)

\* ------------------------------------------------------------ construction
Unset == [set |-> FALSE, v |-> 0]

Set(v) == [set |-> TRUE, v |-> v]

defaultBaseURL == "https://api.hookbase.app"

defaultConfig ==
    [baseURL |-> defaultBaseURL, timeout |-> defaultTimeout,
     maxRetries |-> defaultMaxRetries, httpClient |-> Unset]

\* The ClientOption closures applied to the config: WithTimeout,
\* WithMaxRetries, WithHTTPClient (the value is the client's own Timeout).
ApplyClientOptions(cfg, opts) ==
    [baseURL    |-> cfg.baseURL,
     timeout    |-> IF opts.timeout.set THEN opts.timeout.v ELSE cfg.timeout,
     maxRetries |-> IF opts.maxRetries.set THEN opts.maxRetries.v ELSE cfg.maxRetries,
     httpClient |-> IF opts.httpClient.set THEN opts.httpClient ELSE cfg.httpClient]

newTransport(apiKey, cfg) ==
    [kind |-> "transport", apiKey |-> apiKey, baseURL |-> cfg.baseURL,
     timeout |-> cfg.timeout,
     maxRetries |-> cfg.maxRetries,
     httpTimeout |-> IF cfg.httpClient.set THEN cfg.httpClient.v ELSE cfg.timeout]

Panic == [kind |-> "panic"]

\* The argument of a constructor call, kept for reference.
Arg(v) == [kind |-> "arg", v |-> v]

\* Variant: the empty-key check is missing.
NewClientUnchecked(apiKey, opts) ==
    newTransport(apiKey, ApplyClientOptions(defaultConfig, opts))

\* What New(apiKey, opts...) produces: a panic or the client's transport.
NewClient(apiKey, opts) ==
    IF apiKey = "" THEN Panic
    ELSE newTransport(apiKey, ApplyClientOptions(defaultConfig, opts))

\* Inputs of New.
ApiKeys == {"", "test_key"}

\* WithMaxRetries and WithRequestRetries take any int, negative ones included.
RetryOpts == {Unset} \cup {Set(n) : n \in (0 - 2)..MaxRetryOpt}

ClientOpts ==
    [timeout : {Unset, Set(5)}, maxRetries : RetryOpts, httpClient : {Unset, Set(0)}]

\* The options of the clients that calls are made on: the client's own
\* http.Client, whose Timeout is the client-wide timeout.
OwnHTTPClientOpts == {o \in ClientOpts : ~o.httpClient.set}

New(apiKey, opts) ==
    /\ client.kind = "none"
    /\ client' = NewClient(apiKey, opts)
    /\ called' = [called EXCEPT !.New = Arg(apiKey)]
    /\ UNCHANGED <<wh, callVars, meIn, meOut, hookVars>>

\* ------------------------------------------------------------ transport.do
\* The RequestOption closures applied to requestConfig{timeout: t.timeout}.
ApplyRequestOptions(t, opts) ==
    [timeout |-> IF opts.timeout.set THEN opts.timeout.v ELSE t.timeout,
     timeoutSet |-> opts.timeout.set,
     maxRetries |-> opts.maxRetries,
     idempotencyKey |-> opts.idempotencyKey]

\* WithIdempotencyKey is left out of these calls: the key stays "".
RequestOpts == [timeout : {Unset, Set(10)}, maxRetries : RetryOpts, idempotencyKey : {""}]

\* body argument: nil, a value json.Marshal accepts, a value it rejects.
Bodies == {"nil", "ok", "unmarshalable"}

\* Variant: the per-call override is ignored.
effectiveMaxRetriesClientOnly(t, r) == t.maxRetries

\* `maxRetries := t.maxRetries; if rc.maxRetries != nil { maxRetries = *rc.maxRetries }`
effectiveMaxRetries(t, r) == IF r.maxRetries.set THEN r.maxRetries.v ELSE t.maxRetries

\* The value behind a body argument; content is what the caller can change.
BodyValue(body) == [kind |-> body, content |-> 1]

NilBytes == [kind |-> "nil"]

\* json.Marshal of a value it accepts.
Marshal(v) == [kind |-> "bytes", text |-> "{\"name\":\"v" \o ToString(v.content) \o "\"}"]

\* Start of transport.do up to the loop: options, maxRetries, URL, body
\* encoding. The calls carry no query.
Do(opts, method, path, body, hasOut, urlOk) ==
    /\ client.kind = "transport"
    /\ pc = "idle"
    /\ rc' = ApplyRequestOptions(client, opts)
    /\ maxRetries' = effectiveMaxRetries(client, rc')
    /\ callerBody' = BodyValue(body)
    /\ req' = [kind |-> "req", method |-> method, url |-> client.baseURL \o path,
                hasBody |-> body # "nil",
                bodyBytes |-> IF body = "ok" THEN Marshal(callerBody') ELSE NilBytes,
                hasOut |-> hasOut, urlOk |-> urlOk]
    /\ attempt' = 0
    /\ IF body = "unmarshalable"
       THEN /\ pc' = "done"
            /\ result' = BaseError("failed to marshal request body")
       ELSE /\ pc' = "loop"
            /\ UNCHANGED result
    /\ UNCHANGED <<client, wh, called, lastErr, ctxErr, firedIn, dispatches, fails500,
                   last, slept, meIn, meOut, hookVars, wires>>

\* A nil error; a nil return after json.Unmarshal filled out has outWritten.
Success(outWritten) == [kind |-> "nil", outWritten |-> outWritten]

Nil == Success(FALSE)

\* Variant: off by one, the last retry is never taken.
attemptsRemainOffByOne(att, maxR) == att + 1 < maxR

\* `attempt < maxRetries`, the test in front of every sleep.
attemptsRemain(att, maxR) == att < maxR

\* Variant: only 200 counts as success.
IsSuccessOnly200(status) == status = 200

\* `resp.StatusCode >= 200 && resp.StatusCode < 300`
IsSuccess(status) == status >= 200 /\ status < 300

\* Variant: NotFoundError is missing from the case list.
NoRetryKindsWithoutNotFound ==
    {"AuthenticationError", "ForbiddenError", "ValidationError"}

\* The kinds of the first case of the type switch: returned at once.
NoRetryKinds ==
    {"AuthenticationError", "ForbiddenError", "NotFoundError", "ValidationError"}

\* ---- transport.backoff, with the int and float64 arithmetic of a 64-bit build
\* An int is a sequence of Width \div 8 bytes, lowest first, in two's complement.
IntBytes == 1..(Width \div 8)

\* A natural number below 2^31 as an int.
FromNat(n) == [i \in IntBytes |-> IF i <= 4 THEN (n \div (256 ^ (i - 1))) % 256 ELSE 0]

\* 2^n as an int, for n below Width.
Pow2(n) == [i \in IntBytes |-> IF i = (n \div 8) + 1 THEN 2 ^ (n % 8) ELSE 0]

\* a + b from byte i up, wrapping around.
RECURSIVE AddBytes(_, _, _, _)
AddBytes(a, b, i, carry) ==
    IF i > Len(a) THEN <<>>
    ELSE LET s == a[i] + b[i] + carry
         IN  <<s % 256>> \o AddBytes(a, b, i + 1, s \div 256)

\* a * c from byte i up, for a natural number c of at most a million, wrapping
\* around.
RECURSIVE MulBytes(_, _, _, _)
MulBytes(a, c, i, carry) ==
    IF i > Len(a) THEN <<>>
    ELSE LET s == a[i] * c + carry
         IN  <<s % 256>> \o MulBytes(a, c, i + 1, s \div 256)

Neg64(a) == AddBytes([i \in IntBytes |-> 255 - a[i]], FromNat(1), 1, 0)

IsNeg(a) == a[Width \div 8] >= 128

\* The position of the highest set bit, counted from 0; -1 when there is none.
Top(a) ==
    LET S == {i \in IntBytes : a[i] # 0}
        b == CHOOSE i \in S : \A j \in S : j <= i
    IN  IF S = {} THEN 0 - 1
        ELSE 8 * (b - 1) + (CHOOSE k \in 0..7 : 2 ^ k <= a[b] /\ a[b] < 2 ^ (k + 1))

\* The value of an int in 0 .. 2^31 - 1, one with Top below 31.
ToNat(a) == a[1] + 256 * a[2] + 65536 * a[3] + 16777216 * a[4]

\* a / c from byte i down, for a positive a and a natural number c of at most
\* a million, by long division; rem is the remainder so far.
RECURSIVE DivBytes(_, _, _, _)
DivBytes(a, i, rem, c) ==
    IF i = 0 THEN <<>>
    ELSE LET r == 256 * rem + a[i]
         IN  Append(DivBytes(a, i - 1, r % c, c), r \div c)

\* What int(f) gives for a float64 f outside the range of int: the language
\* leaves it to the implementation; amd64 gives the smallest int, arm64 the
\* nearest one.
FloatToIntModes == {"indefinite", "saturate"}

\* int(math.Pow(2, float64(attempt)))
intPow2(att, conv) ==
    IF att < Width - 1 THEN Pow2(att)
    ELSE IF conv = "indefinite" THEN [i \in IntBytes |-> IF i = Width \div 8 THEN 128 ELSE 0]
    ELSE [i \in IntBytes |-> IF i = Width \div 8 THEN 127 ELSE 255]

\* math.Min(float64(1000*int(math.Pow(2, float64(attempt)))), 10000): the
\* product wraps around; it has at most ten significant bits, so float64 holds
\* it exactly.
backoffBase(att, conv) ==
    LET product == MulBytes(intPow2(att, conv), backoffUnitMs, 1, 0)
    IN  IF IsNeg(product) \/ (Top(product) < 31 /\ ToNat(product) < backoffCapMs)
        THEN product ELSE FromNat(backoffCapMs)

\* time.Duration(base+jitter): the float64 sum, rounded to the nearest float64
\* (ties to even) and then truncated. Below 2^53 the sum is exact; a base of
\* larger magnitude is negative and the jitter moves it by whole units in the
\* last place.
durationOf(base, jitter) ==
    LET mag == IF IsNeg(base) THEN Neg64(base) ELSE base
        e == Top(mag)
        exp == IF mag = Pow2(e) THEN e - 53 ELSE e - 52
        ulp == 2 ^ exp
        q0 == jitter \div ulp
        r == jitter % ulp
        q == IF 2 * r > ulp THEN q0 + 1
             ELSE IF 2 * r < ulp THEN q0
             ELSE IF ((mag[(exp \div 8) + 1] \div (2 ^ (exp % 8))) + q0) % 2 = 0 THEN q0
             ELSE q0 + 1
    IN  IF e < 53 THEN AddBytes(base, FromNat(jitter), 1, 0)
        ELSE AddBytes(base, FromNat(q * ulp), 1, 0)

\* time.Sleep(d * time.Millisecond), in whole milliseconds: the product wraps
\* around, and Sleep returns at once when it is not positive.
sleepMs(d) ==
    LET ns == MulBytes(d, Millisecond, 1, 0)
        ms == DivBytes(ns, Width \div 8, 0, Millisecond)
    IN  IF IsNeg(ns) \/ Top(ns) < 0 THEN 0
        ELSE IF Top(ms) < 31 THEN ToNat(ms) ELSE 2147483647

\* rand.Float64() * 1000, in whole milliseconds: the two ends of [0, 1000).
Jitters == {0, 999}

\* transport.backoff: the time it sleeps, in milliseconds.
backoffMs(att, jitter, conv) == sleepMs(durationOf(backoffBase(att, conv), jitter))

\* backoffMs, computed once for every attempt index a call can reach.
BackoffTable ==
    [att \in 0..MaxAttemptIndex |->
        [jitter \in Jitters |-> [conv \in FloatToIntModes |-> backoffMs(att, jitter, conv)]]]

\* draw is what one run of backoff draws: the jitter, and the conversion of
\* the build.
backoff(att, draw) ==
    [kind |-> "backoff", ms |-> BackoffTable[att][draw.jitter][draw.conv]]

\* time.Sleep(time.Duration(rle.RetryAfter) * time.Second)
retryAfterSleep(rle) == [kind |-> "retryAfter", ms |-> rle.retryAfter * 1000]

\* How one pass through the loop body ends.
Return(err, le) == [next |-> "return", result |-> err, lastErr |-> le, sleep |-> <<>>]

SleepThenContinue(sl, le) ==
    [next |-> "sleep", result |-> None, lastErr |-> le, sleep |-> <<sl>>]

FallThrough(le) == [next |-> "loop", result |-> None, lastErr |-> le, sleep |-> <<>>]

\* Variant: ctx.Err() is not consulted.
onDoErrorWithoutCtxCheck(att, maxR, cErr, draw) ==
    LET le == NetworkError("round trip failed")
    IN  IF attemptsRemain(att, maxR) THEN SleepThenContinue(backoff(att, draw), le)
        ELSE Return(le, le)

\* httpClient.Do returned an error.
onDoError(att, maxR, cErr, draw) ==
    LET le == NetworkError("round trip failed")
    IN  IF cErr # "" THEN Return(TimeoutError(cErr), le)
        ELSE IF attemptsRemain(att, maxR) THEN SleepThenContinue(backoff(att, draw), le)
        ELSE Return(le, le)

\* Variant: a body that cannot be read ends the call.
onReadErrorWithoutRetry(att, maxR, draw) ==
    LET le == NetworkError("failed to read response body")
    IN  Return(le, le)

\* io.ReadAll(resp.Body) returned an error.
onReadError(att, maxR, draw) ==
    LET le == NetworkError("failed to read response body")
    IN  IF attemptsRemain(att, maxR) THEN SleepThenContinue(backoff(att, draw), le)
        ELSE Return(le, le)

\* Variant: the body of a 204 response is decoded too.
onSuccessDecoding204(o, hasOut) ==
    IF ~hasOut THEN Nil
    ELSE IF o.body.valid THEN Success(TRUE)
    ELSE BaseError("failed to unmarshal response")

\* A 2xx response whose body was read.
onSuccess(o, hasOut) ==
    IF o.status = 204 \/ ~hasOut THEN Nil
    ELSE IF o.body.valid THEN Success(TRUE)
    ELSE BaseError("failed to unmarshal response")

\* A non-2xx response whose body was read: mapError, then the type switch.
onAPIError(o, att, maxR, lErr, draw) ==
    LET apiErr == mapError(o.status, o.body, o.requestID, o.headers)
    IN  IF apiErr.kind \in NoRetryKinds THEN Return(apiErr, lErr)
        ELSE IF apiErr.kind = "RateLimitError"
        THEN IF attemptsRemain(att, maxR)
             THEN SleepThenContinue(retryAfterSleep(apiErr), lErr)
             ELSE Return(apiErr, lErr)
        ELSE IF attemptsRemain(att, maxR)
        THEN SleepThenContinue(backoff(att, draw), apiErr)
        ELSE FallThrough(apiErr)

\* The loop body after httpClient.Do returned.
handle(o, att, maxR, lErr, cErr, hasOut, draw) ==
    CASE o.type = "connErr"  -> onDoError(att, maxR, cErr, draw)
      [] o.type = "readFail" -> onReadError(att, maxR, draw)
      [] OTHER -> IF IsSuccess(o.status) THEN Return(onSuccess(o, hasOut), lErr)
                  ELSE onAPIError(o, att, maxR, lErr, draw)

\* Variant: the body is encoded again on every attempt.
bodyOfAttemptMarshalledAgain(q, value) == IF q.hasBody THEN Marshal(value) ELSE NilBytes

\* bytes.NewReader(bodyBytes): the body of an attempt reads the bytes encoded
\* before the loop, whatever the caller's value has become.
bodyOfAttempt(q, value) == q.bodyBytes

\* http.NewRequestWithContext and the Header.Set calls of one attempt; a
\* header is <<value>> when set and <<>> when absent.
newRequest(t, r, q, value) ==
    [method |-> q.method, url |-> q.url, body |-> bodyOfAttempt(q, value),
     authorization |-> <<"Bearer " \o t.apiKey>>,
     userAgent |-> <<"hookbase-go/0.1.0">>,
     accept |-> <<"application/json">>,
     contentType |-> IF q.hasBody THEN <<"application/json">> ELSE <<>>,
     idempotencyKey |-> IF r.idempotencyKey # "" THEN <<r.idempotencyKey>> ELSE <<>>]

\* ---- what the server and the network can do to one dispatch
GoodBody ==
    [valid |-> TRUE, errMessage |-> "boom", errCode |-> "", validationErrors |-> NilMap,
     message |-> "", code |-> ""]

FieldsBody ==
    [valid |-> TRUE, errMessage |-> "invalid", errCode |-> "validation_error",
     validationErrors |-> {<<"name", <<"is required">>>>},
     message |-> "", code |-> ""]

BadBody == [ZeroErrBody EXCEPT !.message = "<html>"]

NoHeaders == [retryAfter |-> <<>>]

RetryAfterHeaders ==
    {NoHeaders, [retryAfter |-> <<"3", "0">>], [retryAfter |-> <<"a", "b", "c">>]}

Response(status, body, headers) ==
    [type |-> "response", status |-> status, body |-> body, headers |-> headers,
     requestID |-> "req_1"]

ConnErr == [type |-> "connErr", status |-> 0, body |-> ZeroErrBody,
            headers |-> NoHeaders, requestID |-> ""]

ReadFail(status) == [Response(status, ZeroErrBody, NoHeaders) EXCEPT !.type = "readFail"]

Outcomes ==
    {ConnErr} \cup {ReadFail(s) : s \in {200, 429}}
    \cup {Response(200, b, NoHeaders) : b \in {GoodBody, BadBody}}
    \cup {Response(204, BadBody, NoHeaders)}
    \cup {Response(s, GoodBody, NoHeaders) : s \in {401, 403, 404, 409, 500}}
    \cup {Response(s, FieldsBody, NoHeaders) : s \in {400, 422}}
    \cup {Response(429, GoodBody, h) : h \in RetryAfterHeaders}

\* Seconds until the response is complete.
Latencies == {1, 20}

CtxErrs == {"context canceled", "context deadline exceeded"}

\* What a pass can draw: rand.Float64 is called by backoff only, and the
\* conversion of the build shows only when 2^attempt is outside the range of int.
DrawsOf(st, att) ==
    IF st.next = "sleep" /\ st.sleep[1].kind = "backoff"
    THEN [jitter : Jitters,
          conv : IF att < Width - 1 THEN {"indefinite"} ELSE FloatToIntModes]
    ELSE {[jitter |-> 0, conv |-> "indefinite"]}

\* One pass through the loop body: build the request, httpClient.Do, read the
\* body, classify, and either return, start a sleep or fall out of the body;
\* falling out runs attempt++ and the loop test, and `return lastErr` when
\* the test fails.
Attempt(o, latency, cancel) ==
    /\ pc = "loop"
    /\ attempt <= maxRetries
    /\ cancel # "" => ctxErr = ""
    /\ ctxErr # "" => o.type = "connErr"
    /\ (cancel # "" \/ (client.httpTimeout > 0 /\ latency >= client.httpTimeout))
          => o.type \in {"connErr", "readFail"}
    /\ IF ~req.urlOk
       THEN /\ pc' = "done"
            /\ result' = NetworkError("failed to create request")
            /\ UNCHANGED <<attempt, lastErr, ctxErr, firedIn, dispatches, fails500, last,
                           slept, wires>>
       ELSE LET cErr == IF ctxErr # "" THEN ctxErr ELSE cancel
                st0 == handle(o, attempt, maxRetries, lastErr, cErr, req.hasOut,
                             [jitter |-> 0, conv |-> "indefinite"])
            IN  \E draw \in DrawsOf(st0, attempt) :
                LET st == handle(o, attempt, maxRetries, lastErr, cErr, req.hasOut, draw)
                IN  /\ wires' = wires \cup {newRequest(client, rc, req, callerBody)}
                    /\ ctxErr' = cErr
                    /\ firedIn' = IF cancel # "" THEN "dispatch" ELSE firedIn
                    /\ dispatches' = dispatches + 1
                    /\ fails500' = IF o.type = "response" /\ o.status = 500
                                   THEN fails500 + 1 ELSE fails500
                    /\ last' = [kind |-> "outcome", outcome |-> o, latency |-> latency,
                                 ctxErr |-> cErr]
                    /\ lastErr' = st.lastErr
                    /\ slept' = st.sleep
                    /\ attempt' = IF st.next = "loop" THEN attempt + 1 ELSE attempt
                    /\ pc' = CASE st.next = "return" -> "done"
                               [] st.next = "sleep" -> "sleep"
                               [] OTHER -> IF attempt' <= maxRetries THEN "loop" ELSE "done"
                    /\ result' = IF st.next = "loop" /\ pc' = "done" THEN st.lastErr
                                  ELSE st.result
    /\ UNCHANGED <<client, wh, called, rc, req, maxRetries, meIn, meOut, hookVars,
                   callerBody>>

\* time.Sleep returned: `continue`.
Wake ==
    /\ pc = "sleep"
    /\ pc' = "loop"
    /\ attempt' = attempt + 1
    /\ UNCHANGED <<client, wh, called, rc, req, maxRetries, lastErr, result, ctxErr, firedIn,
                   dispatches, fails500, last, slept, meIn, meOut, hookVars, callerBody,
                   wires>>

\* The loop test fails on entry or after a sleep: `return lastErr`.
LoopExit ==
    /\ pc = "loop"
    /\ attempt > maxRetries
    /\ pc' = "done"
    /\ result' = lastErr
    /\ UNCHANGED <<client, wh, called, rc, req, maxRetries, attempt, lastErr, ctxErr, firedIn,
                   dispatches, fails500, last, slept, meIn, meOut, hookVars, callerBody,
                   wires>>

\* The caller cancels ctx, or its deadline fires, while the call is running.
Cancel(why) ==
    /\ pc \in {"loop", "sleep"}
    /\ ctxErr = ""
    /\ ctxErr' = why
    /\ firedIn' = pc
    /\ UNCHANGED <<client, wh, called, pc, rc, req, maxRetries, attempt, lastErr, result,
                   dispatches, fails500, last, slept, meIn, meOut, hookVars, callerBody,
                   wires>>

\* The caller changes the value it passed as body while the call is running.
MutateBody ==
    /\ pc \in {"loop", "sleep"}
    /\ callerBody.kind = "ok"
    /\ callerBody.content = 1
    /\ callerBody' = [callerBody EXCEPT !.content = 2]
    /\ UNCHANGED <<client, wh, called, pc, rc, req, maxRetries, attempt, lastErr, result,
                   ctxErr, firedIn, dispatches, fails500, last, slept, meIn, meOut,
                   hookVars, wires>>

\* ----------------------------------------------------------- specification
\* Everything but the arguments of a direct mapError application.
InitCall ==
    /\ client = None
    /\ wh = None
    /\ called = [New |-> None, NewWebhook |-> None]
    /\ pc = "idle"
    /\ rc = None
    /\ req = None
    /\ maxRetries = 0
    /\ attempt = 0
    /\ lastErr = Nil
    /\ result = None
    /\ ctxErr = ""
    /\ firedIn = ""
    /\ dispatches = 0
    /\ fails500 = 0
    /\ last = None
    /\ slept = <<>>
    /\ callerBody = None
    /\ wires = {}
    /\ meOut = None
    /\ now = 1000
    /\ sent = None
    /\ delivery = None
    /\ checks = <<>>

Init == InitCall /\ meIn = None

Next ==
    \/ \E k \in ApiKeys, o \in OwnHTTPClientOpts : New(k, o)
    \/ \E o \in RequestOpts, b \in Bodies, out \in BOOLEAN, u \in BOOLEAN :
          Do(o, "POST", "/api/sources", b, out, u)
    \/ \E o \in Outcomes, l \in Latencies, c \in CtxErrs \cup {""} : Attempt(o, l, c)
    \/ Wake
    \/ LoopExit
    \/ \E why \in CtxErrs : Cancel(why)

Spec == Init /\ [][Next]_vars

\* The goroutine that runs transport.do keeps running: a sleep ends, and the
\* loop body is entered whenever the loop test lets it.
AnyAttempt == \E o \in Outcomes, l \in Latencies, c \in CtxErrs \cup {""} : Attempt(o, l, c)

\* Calls on a client built without options; the retry count comes from the
\* default or from WithRequestRetries.
DefaultClientOpts == {o \in ClientOpts : o.timeout = Unset /\ o.maxRetries = Unset
                                          /\ o.httpClient = Unset}

RetryOnlyRequestOpts == {o \in RequestOpts : o.timeout = Unset}

NextFair ==
    \/ \E k \in ApiKeys, o \in DefaultClientOpts : New(k, o)
    \/ \E o \in RetryOnlyRequestOpts, b \in Bodies, out \in BOOLEAN, u \in BOOLEAN :
          Do(o, "POST", "/api/sources", b, out, u)
    \/ AnyAttempt
    \/ Wake
    \/ LoopExit
    \/ \E why \in CtxErrs : Cancel(why)

SpecFair ==
    /\ Init /\ [][NextFair]_vars
    /\ WF_vars(Wake) /\ WF_vars(AnyAttempt) /\ WF_vars(LoopExit)

\* Calls on a client built with WithMaxRetries(MaxAttemptIndex + 1) against a
\* server that keeps failing: every attempt index up to MaxAttemptIndex backs off.
NextBackoff ==
    \/ New("test_key", [timeout |-> Unset, maxRetries |-> Set(MaxAttemptIndex + 1),
                        httpClient |-> Unset])
    \/ Do([timeout |-> Unset, maxRetries |-> Unset, idempotencyKey |-> ""],
          "GET", "/api/sources", "nil", FALSE, TRUE)
    \/ \E o \in {ConnErr, Response(500, GoodBody, NoHeaders)} : Attempt(o, 1, "")
    \/ Wake

SpecBackoff == Init /\ [][NextBackoff]_vars

\* Calls with and without a body and an idempotency key, retried after
\* failures, while the caller keeps changing the value it passed as body.
WireRequestOpts ==
    [timeout : {Unset}, maxRetries : {Unset, Set(1)}, idempotencyKey : {"", "key-1"}]

NextWire ==
    \/ \E o \in DefaultClientOpts : New("test_key", o)
    \/ \E o \in WireRequestOpts, method \in {"POST", "DELETE"}, b \in {"nil", "ok"} :
          Do(o, method, "/api/sources", b, FALSE, TRUE)
    \/ \E o \in {ConnErr, ReadFail(200), Response(200, GoodBody, NoHeaders),
                  Response(500, GoodBody, NoHeaders), Response(429, GoodBody, NoHeaders)} :
          Attempt(o, 1, "")
    \/ Wake
    \/ MutateBody

SpecWire == Init /\ [][NextWire]_vars

\* -------------------------------------------------------------- NewWebhook
\* encoding/base64: the alphabet of StdEncoding, values 0..63 by position.
B64Alphabet ==
    <<"A", "B", "C", "D", "E", "F", "G", "H", "I", "J", "K", "L", "M", "N", "O", "P",
     "Q", "R", "S", "T", "U", "V", "W", "X", "Y", "Z", "a", "b", "c", "d", "e", "f",
     "g", "h", "i", "j", "k", "l", "m", "n", "o", "p", "q", "r", "s", "t", "u", "v",
     "w", "x", "y", "z", "0", "1", "2", "3", "4", "5", "6", "7", "8", "9", "+", "/">>

IsB64(c) == \E i \in 1..64 : B64Alphabet[i] = c

B64Val(c) == (CHOOSE i \in 1..64 : B64Alphabet[i] = c) - 1

\* The byte of an ASCII character that a secret can hold.
Byte(c) ==
    IF IsB64(c)
    THEN LET v == B64Val(c)
         IN  IF v < 26 THEN 65 + v
             ELSE IF v < 52 THEN 97 + (v - 26)
             ELSE IF v < 62 THEN 48 + (v - 52)
             ELSE IF v = 62 THEN 43 ELSE 47
    ELSE CASE c = "=" -> 61 [] c = "_" -> 95 [] c = "-" -> 45 [] c = "." -> 46
           [] c = "," -> 44 [] c = " " -> 32 [] c = "!" -> 33

\* []byte(s)
Bytes(s) == [i \in 1..Len(s) |-> Byte(s[i])]

\* base64.StdEncoding.DecodeString: [ok, bytes].  Quanta of four characters,
\* padding required, "=" only in the last quantum, nothing after it.
RECURSIVE DecodeString(_)
DecodeString(s) ==
    IF s = <<>> THEN [ok |-> TRUE, bytes |-> <<>>]
    ELSE IF Len(s) < 4 \/ ~IsB64(s[1]) \/ ~IsB64(s[2]) THEN [ok |-> FALSE, bytes |-> <<>>]
    ELSE LET v1 == B64Val(s[1])
             v2 == B64Val(s[2])
             b1 == v1 * 4 + (v2 \div 16)
         IN  IF s[3] = "="
             THEN [ok |-> s[4] = "=" /\ Len(s) = 4, bytes |-> <<b1>>]
             ELSE IF ~IsB64(s[3]) THEN [ok |-> FALSE, bytes |-> <<>>]
             ELSE LET v3 == B64Val(s[3])
                      b2 == (v2 % 16) * 16 + (v3 \div 4)
                  IN  IF s[4] = "="
                      THEN [ok |-> Len(s) = 4, bytes |-> <<b1, b2>>]
                      ELSE IF ~IsB64(s[4]) THEN [ok |-> FALSE, bytes |-> <<>>]
                      ELSE LET b3 == (v3 % 4) * 64 + B64Val(s[4])
                               rest == DecodeString(SubSeq(s, 5, Len(s)))
                           IN  [ok |-> rest.ok, bytes |-> <<b1, b2, b3>> \o rest.bytes]

WhsecPrefix == <<"w", "h", "s", "e", "c", "_">>

\* strings.HasPrefix
HasPrefix(s, prefix) ==
    Len(s) >= Len(prefix) /\ SubSeq(s, 1, Len(prefix)) = prefix

\* What NewWebhook(secret) produces: a panic or the verifier with its key.
NewWebhookValue(secret) ==
    IF secret = <<>> THEN Panic
    ELSE LET s == IF HasPrefix(secret, WhsecPrefix)
                  THEN SubSeq(secret, 7, Len(secret)) ELSE secret
             decoded == DecodeString(s)
         IN  [kind |-> "webhook",
              secret |-> IF decoded.ok THEN decoded.bytes ELSE Bytes(s)]

\* Inputs of NewWebhook.
Secrets ==
    {<<>>,
     <<"w", "h", "s", "e", "c", "_", "d", "G", "V", "z", "d", "C", "1", "z", "Z", "W", "N", "y", "Z", "X", "Q", "=">>,
     <<"d", "G", "V", "z", "d", "C", "1", "z", "Z", "W", "N", "y", "Z", "X", "Q", "=">>,
     <<"w", "h", "s", "e", "c", "_", "Y", "Q", "=", "=">>,
     <<"Y", "W", "I", "=">>,
     <<"w", "h", "s", "e", "c", "_">>,
     <<"r", "a", "w", "!">>,
     <<"w", "h", "s", "e", "c", "_", "r", "a", "w">>,
     <<"Y", "Q">>}

NewWebhook(secret) ==
    /\ wh.kind = "none"
    /\ wh' = NewWebhookValue(secret)
    /\ called' = [called EXCEPT !.NewWebhook = Arg(secret)]
    /\ UNCHANGED <<client, callVars, meIn, meOut, hookVars>>

\* Construction on its own: both constructors, in either order.
NextNew ==
    \/ \E k \in ApiKeys, o \in ClientOpts : New(k, o)
    \/ \E s \in Secrets : NewWebhook(s)

SpecNew == Init /\ [][NextNew]_vars

\* ------------------------------------------------------ webhook verification
defaultTolerance == 300

WebhookVerificationError(message) ==
    [kind |-> "WebhookVerificationError", message |-> message]

\* The nil error of a verification that succeeded.
Verified == [kind |-> "nil"]

\* strings.ToLower on the characters a header name can hold.
LowerOf == [c \in {B64Alphabet[i] : i \in 1..26} |-> B64Alphabet[B64Val(c) + 27]]

ToLowerChar(c) == IF c \in DOMAIN LowerOf THEN LowerOf[c] ELSE c

ToLower(s) == [i \in 1..Len(s) |-> ToLowerChar(s[i])]

HeaderID == <<"w", "e", "b", "h", "o", "o", "k", "-", "i", "d">>

HeaderTimestamp == <<"w", "e", "b", "h", "o", "o", "k", "-", "t", "i", "m", "e", "s", "t", "a", "m", "p">>

HeaderSignature == <<"w", "e", "b", "h", "o", "o", "k", "-", "s", "i", "g", "n", "a", "t", "u", "r", "e">>

RequiredHeaders == {HeaderID, HeaderTimestamp, HeaderSignature}

\* Variant: the keys are kept as spelled.
normalizeHeadersAsSpelled(headers) ==
    {[k \in {kv[1] : kv \in headers} |-> (CHOOSE kv \in headers : kv[1] = k)[2]]}

\* A map[string]string is a set of <<key, value>> pairs with distinct keys.
\* normalizeHeaders ranges over the map in an unspecified order: when several
\* keys lower to the same name, any of their values can be the one that is
\* kept.  The set of maps the function can return.
normalizeHeaders(headers) ==
    LET keys   == {ToLower(kv[1]) : kv \in headers}
        values == {kv[2] : kv \in headers}
    IN  {n \in [keys -> values] :
            \A k \in keys : \E kv \in headers : ToLower(kv[1]) = k /\ kv[2] = n[k]}

\* Variant: a missing key reads as a placeholder.
GetOrPlaceholder(m, k) == IF k \in DOMAIN m THEN m[k] ELSE <<"?">>

\* m[k] on a Go map: the zero value "" for a missing key.
Get(m, k) == IF k \in DOMAIN m THEN m[k] ELSE <<>>

\* strconv.FormatInt(n, 10)
RECURSIVE FormatNat(_)
FormatNat(n) ==
    IF n < 10 THEN <<DigitChars[n + 1]>>
    ELSE FormatNat(n \div 10) \o <<DigitChars[(n % 10) + 1]>>

FormatInt(n) == IF n < 0 THEN <<"-">> \o FormatNat(0 - n) ELSE FormatNat(n)

\* strconv.ParseInt(s, 10, 64): the grammar of Atoi.
ParseInt(s) == Atoi(s)

\* Variant: the payload is left out of the signed content.
signedContentWithoutPayload(webhookID, webhookTimestamp, payload) ==
    webhookID \o <<".">> \o webhookTimestamp \o <<".">>

\* fmt.Sprintf("%s.%s.%s", webhookID, webhookTimestamp, string(payload))
signedContent(webhookID, webhookTimestamp, payload) ==
    webhookID \o <<".">> \o webhookTimestamp \o <<".">> \o payload

\* crypto/hmac pads a key shorter than the hash block with zero bytes, so keys
\* that differ only in trailing zero bytes are one key.
RECURSIVE hmacKey(_)
hmacKey(key) ==
    IF key # <<>> /\ key[Len(key)] = 0 THEN hmacKey(SubSeq(key, 1, Len(key) - 1))
    ELSE key

\* Variant: the key does not enter the MAC.
hmacSHA256Unkeyed(key, content) == "#" \o ToString(<<<<>>, content>>)

\* HMAC-SHA256 taken as collision-free: the MAC is a token that names the
\* padded key and the content it was computed from.
hmacSHA256(key, content) == "#" \o ToString(<<hmacKey(key), content>>)

\* Webhook.sign: the base64 text of the 32 MAC bytes, held as one element that
\* stands for its 44 characters (none of them a space or a comma).
sign(w, content) == <<hmacSHA256(w.secret, content)>>

IsMacText(c) == Len(c) > 1

\* base64.StdEncoding.DecodeString on a signature text: [ok, raw, mac], the
\* decoded bytes being the literal bytes raw followed by the 32 bytes of mac
\* when the text ends in a MAC's encoding.  That encoding ends in padding, so
\* nothing can follow it, and what precedes it must be whole quanta.
decodeSignature(text) ==
    LET macs == {i \in 1..Len(text) : IsMacText(text[i])}
    IN  IF macs = {}
        THEN LET d == DecodeString(text)
             IN  [ok |-> d.ok, raw |-> d.bytes, mac |-> ""]
        ELSE IF macs = {Len(text)}
        THEN LET prefix == SubSeq(text, 1, Len(text) - 1)
                 d == DecodeString(prefix)
             IN  [ok |-> d.ok /\ \A i \in 1..Len(prefix) : prefix[i] # "=",
                  raw |-> d.bytes, mac |-> text[Len(text)]]
        ELSE [ok |-> FALSE, raw |-> <<>>, mac |-> ""]

byteLen(b) == Len(b.raw) + (IF b.mac # "" THEN 32 ELSE 0)

\* len(expectedBytes) == len(actualBytes) && subtle.ConstantTimeCompare(...) == 1
equalBytes(a, b) == byteLen(a) = byteLen(b) /\ a.raw = b.raw /\ a.mac = b.mac

\* strings.Split(s, sep) for a one-character sep.
RECURSIVE Split(_, _)
Split(s, sep) ==
    IF \A i \in 1..Len(s) : s[i] # sep THEN <<s>>
    ELSE LET i == CHOOSE i \in 1..Len(s) : s[i] = sep /\ \A j \in 1..(i - 1) : s[j] # sep
         IN  <<SubSeq(s, 1, i - 1)>> \o Split(SubSeq(s, i + 1, Len(s)), sep)

\* strings.SplitN(s, sep, 2)
SplitN2(s, sep) ==
    IF \A i \in 1..Len(s) : s[i] # sep THEN <<s>>
    ELSE LET i == CHOOSE i \in 1..Len(s) : s[i] = sep /\ \A j \in 1..(i - 1) : s[j] # sep
         IN  <<SubSeq(s, 1, i - 1), SubSeq(s, i + 1, Len(s))>>

IsPair(parts) == Len(parts) = 2

\* Variant: only the first field of the header is looked at.
parseSignaturesFirstField(header) ==
    LET split == <<SplitN2(Split(header, " ")[1], ",")>>
        kept  == SelectSeq(split, IsPair)
    IN  [i \in 1..Len(kept) |-> [version |-> kept[i][1], signature |-> kept[i][2]]]

parseSignatures(header) ==
    LET fields == Split(header, " ")
        split  == [i \in 1..Len(fields) |-> SplitN2(fields[i], ",")]
        kept   == SelectSeq(split, IsPair)
    IN  [i \in 1..Len(kept) |-> [version |-> kept[i][1], signature |-> kept[i][2]]]

V1 == <<"v", "1">>

Abs(n) == IF n < 0 THEN 0 - n ELSE n

\* Variant: the timestamp check looks at the past only.
timestampOutsidePastOnly(clock, ts, toleranceSec) == clock - ts > toleranceSec

\* `diff := math.Abs(float64(now - ts)); if diff > float64(toleranceSec)`
timestampOutside(clock, ts, toleranceSec) == Abs(clock - ts) > toleranceSec

\* Variant: the version of an entry is not looked at.
versionKnownAny(version) == TRUE

\* `if sig.version == "v1"`
versionKnown(version) == version = V1

\* The body of VerifyWithTolerance after normalizeHeaders, at clock reading
\* `clock` of time.Now().Unix().
verifyNormalized(w, payload, normalized, toleranceSec, clock) ==
    LET webhookID        == Get(normalized, HeaderID)
        webhookTimestamp == Get(normalized, HeaderTimestamp)
        webhookSignature == Get(normalized, HeaderSignature)
        ts         == ParseInt(webhookTimestamp)
        expected   == sign(w, signedContent(webhookID, webhookTimestamp, payload))
        signatures == parseSignatures(webhookSignature)
        matches(sig) ==
            /\ versionKnown(sig.version)
            /\ LET expectedBytes == decodeSignature(expected)
                   actualBytes   == decodeSignature(sig.signature)
               IN  expectedBytes.ok /\ actualBytes.ok /\ equalBytes(expectedBytes, actualBytes)
    IN  IF webhookID = <<>>
        THEN WebhookVerificationError("missing webhook-id header")
        ELSE IF webhookTimestamp = <<>>
        THEN WebhookVerificationError("missing webhook-timestamp header")
        ELSE IF webhookSignature = <<>>
        THEN WebhookVerificationError("missing webhook-signature header")
        ELSE IF ~ts.ok
        THEN WebhookVerificationError("invalid timestamp format")
        ELSE IF timestampOutside(clock, ts.v, toleranceSec)
        THEN WebhookVerificationError(
                 "timestamp outside tolerance (" \o ToString(Abs(clock - ts.v)) \o "s > "
                 \o ToString(toleranceSec) \o "s)")
        ELSE IF Len(signatures) = 0
        THEN WebhookVerificationError("no valid signatures found")
        ELSE IF \E i \in 1..Len(signatures) : matches(signatures[i])
        THEN Verified
        ELSE WebhookVerificationError("signature verification failed")

\* What VerifyWithTolerance can return.
verifyOutcomes(w, payload, headers, toleranceSec, clock) ==
    {verifyNormalized(w, payload, n, toleranceSec, clock) : n \in normalizeHeaders(headers)}

DefaultID == <<"m", "s", "g", "_", "t", "e", "s", "t">>

\* Variant: the signature is computed over the id as given, not the default.
GenerateTestHeadersSigningGivenID(w, payload, id, clock) ==
    LET webhookID == IF id = <<>> THEN DefaultID ELSE id
        timestamp == FormatInt(clock)
        signature == sign(w, signedContent(id, timestamp, payload))
    IN  {<<HeaderID, webhookID>>,
         <<HeaderTimestamp, timestamp>>,
         <<HeaderSignature, <<"v", "1", ",">> \o signature>>}

\* Webhook.GenerateTestHeaders at clock reading `clock`.
GenerateTestHeadersValue(w, payload, id, clock) ==
    LET webhookID == IF id = <<>> THEN DefaultID ELSE id
        timestamp == FormatInt(clock)
        signature == sign(w, signedContent(webhookID, timestamp, payload))
    IN  {<<HeaderID, webhookID>>,
         <<HeaderTimestamp, timestamp>>,
         <<HeaderSignature, <<"v", "1", ",">> \o signature>>}

\* ---- a delivery on its way from the signer to the verifier
\* Secrets of the receiving side.
VerifierSecrets ==
    {<<"w", "h", "s", "e", "c", "_", "d", "G", "V", "z", "d", "C", "1", "z", "Z", "W", "N", "y", "Z", "X", "Q", "=">>,
     <<"w", "h", "s", "e", "c", "_", "Y", "Q", "=", "=">>,
     <<"w", "h", "s", "e", "c", "_">>}

\* Secrets of the signing side: the same strings, the first key under another
\* spelling, and the second key followed by a zero byte.
SignerSecrets ==
    VerifierSecrets
    \cup {<<"d", "G", "V", "z", "d", "C", "1", "z", "Z", "W", "N", "y", "Z", "X", "Q", "=">>,
          <<"Y", "Q", "A", "=">>}

Payloads == {<<"{", "}">>, <<"[", "]">>}

MessageIDs == {<<>>, <<"m", "s", "g", "_", "1">>}

\* Seconds between signing and verifying; negative when the signer's clock
\* is ahead of the verifier's.
ClockSteps == {0 - 301, 0 - 300, 300, 301}

\* Tolerances handed to VerifyWithTolerance.
Tolerances == {299}

GenerateTestHeaders(secret, payload, id) ==
    /\ sent.kind = "none"
    /\ LET w == NewWebhookValue(secret)
           headers == GenerateTestHeadersValue(w, payload, id, now)
       IN  /\ w.kind = "webhook"
           /\ sent' = [kind |-> "sent", secret |-> secret, by |-> w, payload |-> payload,
                       id |-> id, at |-> now, headers |-> headers]
           /\ delivery' = [kind |-> "delivery", payload |-> payload, headers |-> headers,
                      edit |-> None]
    /\ UNCHANGED <<client, wh, called, callVars, meIn, meOut, now, checks>>

\* Time passes between signing and verifying.
Tick(d) ==
    /\ sent.kind = "sent"
    /\ now = sent.at
    /\ checks = <<>>
    /\ now' = now + d
    /\ UNCHANGED <<client, wh, called, callVars, meIn, meOut, sent, delivery, checks>>

UpperOf == [c \in {B64Alphabet[i] : i \in 27..52} |-> B64Alphabet[B64Val(c) - 25]]

ToUpperChar(c) == IF c \in DOMAIN UpperOf THEN UpperOf[c] ELSE c

\* A spelling of a header name: all capitals, or capitals after each hyphen.
Respell(name, style) ==
    [i \in 1..Len(name) |->
        IF style = "upper" \/ i = 1 \/ name[i - 1] = "-" THEN ToUpperChar(name[i])
        ELSE name[i]]

\* The version token of every entry of a signature header replaced.
RECURSIVE Join(_)
Join(fields) ==
    IF Len(fields) = 1 THEN fields[1]
    ELSE fields[1] \o <<" ">> \o Join(Tail(fields))

WithVersion(header, version) ==
    LET fields == Split(header, " ")
    IN  Join([i \in 1..Len(fields) |->
                LET parts == SplitN2(fields[i], ",")
                IN  IF Len(parts) = 2 THEN version \o <<",">> \o parts[2] ELSE fields[i]])

\* No header, or one of the three.
PresenceSets == {{}} \cup {{h} : h \in RequiredHeaders}

\* What can happen to a delivery before it is verified: headers lost or
\* blanked, header names respelled, the payload replaced, the version token
\* of the signature replaced.
Edits ==
    {[kind |-> "presence", drop |-> d, blank |-> b] :
        d \in PresenceSets, b \in PresenceSets}
    \cup {[kind |-> "respell", names |-> RequiredHeaders, style |-> st] :
            st \in {"upper", "title"}}
    \cup {[kind |-> "respell", names |-> {HeaderSignature}, style |-> "title"]}
    \cup {[kind |-> "payload", payload |-> p] : p \in Payloads}
    \cup {[kind |-> "version", version |-> v] : v \in {<<"v", "2">>, <<"V", "1">>}}

\* The value a header map holds for a name, under whatever spelling.
HeaderValue(headers, name) == (CHOOSE kv \in headers : ToLower(kv[1]) = name)[2]

SetHeader(headers, name, value) ==
    {<<kv[1], IF ToLower(kv[1]) = name THEN value ELSE kv[2]>> : kv \in headers}

\* The signed content of a delivery cut into id, timestamp and payload at
\* two other of its dots.
Resplit(m, first, second) ==
    LET content == signedContent(HeaderValue(m.headers, HeaderID),
                                 HeaderValue(m.headers, HeaderTimestamp), m.payload)
        dots == {i \in 1..Len(content) : content[i] = "."}
        nth(n) == CHOOSE i \in dots : Cardinality({j \in dots : j < i}) = n - 1
        i == nth(first)
        j == nth(second)
    IN  IF Cardinality(dots) < second THEN m
        ELSE [m EXCEPT
                !.headers = SetHeader(SetHeader(m.headers, HeaderID, SubSeq(content, 1, i - 1)),
                                      HeaderTimestamp, SubSeq(content, i + 1, j - 1)),
                !.payload = SubSeq(content, j + 1, Len(content))]

\* The entries a signature header can be made of, given the entry the signer
\* wrote: that entry, the same under version v2, a signature that is not
\* base64, the MAC of another key, a field without a comma.
EntryText(kind, signed) ==
    CASE kind = "good"        -> signed
      [] kind = "v2good"      -> WithVersion(signed, <<"v", "2">>)
      [] kind = "undecodable" -> <<"v", "1", ",", "!", "!">>
      [] kind = "wrongMac"    -> <<"v", "1", ",", hmacSHA256(<<1>>, <<>>)>>
      [] kind = "malformed"   -> <<"g", "a", "r", "b", "a", "g", "e">>

\* Signature headers of one, two or three entries.
EntryLists ==
    LET kinds == {"good", "v2good", "undecodable", "wrongMac", "malformed"}
    IN  {<<k>> : k \in kinds} \cup {<<k1, k2>> : k1 \in kinds, k2 \in kinds}
        \cup {<<"malformed", "v2good", "good">>, <<"wrongMac", "undecodable", "v2good">>}

ApplyEdit(e, m) ==
    CASE e.kind = "presence" ->
           [m EXCEPT !.headers =
               {kv \in m.headers : ToLower(kv[1]) \notin e.drop \cup e.blank}
               \cup {<<kv[1], <<>>>> : kv \in {x \in m.headers : ToLower(x[1]) \in e.blank}}]
      [] e.kind = "respell" ->
           [m EXCEPT !.headers =
               {<<IF ToLower(kv[1]) \in e.names THEN Respell(kv[1], e.style) ELSE kv[1],
                  kv[2]>> : kv \in m.headers}]
      [] e.kind = "payload" -> [m EXCEPT !.payload = e.payload]
      [] e.kind = "version" ->
           [m EXCEPT !.headers =
               {<<kv[1], IF ToLower(kv[1]) = HeaderSignature
                         THEN WithVersion(kv[2], e.version) ELSE kv[2]>> : kv \in m.headers}]
      [] e.kind = "resplit" -> Resplit(m, e.first, e.second)
      [] e.kind = "field" -> [m EXCEPT !.headers = SetHeader(m.headers, e.name, e.value)]
      [] e.kind = "entries" ->
           [m EXCEPT !.headers =
               SetHeader(m.headers, HeaderSignature,
                         Join([i \in 1..Len(e.entries) |->
                                 EntryText(e.entries[i],
                                           HeaderValue(m.headers, HeaderSignature))]))]
      [] e.kind = "collide" ->
           [m EXCEPT !.headers =
               m.headers \cup {<<Respell(e.name, "title"),
                                 IF e.same THEN HeaderValue(m.headers, e.name) ELSE e.value>>}]

Edit(e) ==
    /\ delivery.kind = "delivery"
    /\ delivery.edit = None
    /\ e.kind = "presence" => e.drop \cap e.blank = {}
    /\ ApplyEdit(e, delivery) # delivery
    /\ delivery' = [ApplyEdit(e, delivery) EXCEPT !.edit = e]
    /\ UNCHANGED <<client, wh, called, callVars, meIn, meOut, now, sent, checks>>

\* One call of VerifyWithTolerance on the delivery in hand, recorded.
Checked(toleranceSec) ==
    \E out \in verifyOutcomes(wh, delivery.payload, delivery.headers, toleranceSec, now) :
        checks' = Append(checks, [delivery |-> delivery, toleranceSec |-> toleranceSec,
                                  now |-> now, out |-> out])

VerifyWithTolerance(toleranceSec) ==
    /\ wh.kind = "webhook"
    /\ delivery.kind = "delivery"
    /\ Len(checks) < MaxChecks
    /\ Checked(toleranceSec)
    /\ UNCHANGED <<client, wh, called, callVars, meIn, meOut, now, sent, delivery>>

\* Verify: VerifyWithTolerance with defaultTolerance.
Verify ==
    /\ wh.kind = "webhook"
    /\ delivery.kind = "delivery"
    /\ Len(checks) < MaxChecks
    /\ Checked(defaultTolerance)
    /\ UNCHANGED <<client, wh, called, callVars, meIn, meOut, now, sent, delivery>>

\* The target VerifyAndParse is given: a pointer to a nil map.
NilTarget == [kind |-> "map", set |-> FALSE]

\* json.Unmarshal(payload, v) for v a pointer to a map: an object fills the
\* map, any other JSON value is a type error, any other text a syntax error;
\* both errors leave the map as it was.
jsonUnmarshal(payload, target) ==
    IF payload = <<"{", "}">>
    THEN [err |-> [kind |-> "nil"], target |-> [kind |-> "map", set |-> TRUE]]
    ELSE IF payload = <<"[", "]">>
    THEN [err |-> [kind |-> "json.UnmarshalTypeError"], target |-> target]
    ELSE [err |-> [kind |-> "json.SyntaxError"], target |-> target]

\* Variant: the payload is decoded before it is verified.
verifyAndParseDecodingFirst(verifyErr, payload, target) ==
    LET parsed == jsonUnmarshal(payload, target)
    IN  IF verifyErr # Verified THEN [out |-> verifyErr, target |-> parsed.target]
        ELSE [out |-> parsed.err, target |-> parsed.target]

\* The body of VerifyAndParse, given what Verify returned.
verifyAndParse(verifyErr, payload, target) ==
    IF verifyErr # Verified THEN [out |-> verifyErr, target |-> target]
    ELSE LET parsed == jsonUnmarshal(payload, target)
         IN  [out |-> parsed.err, target |-> parsed.target]

\* One call of VerifyAndParse on the delivery in hand, recorded with the target.
VerifyAndParse ==
    /\ wh.kind = "webhook"
    /\ delivery.kind = "delivery"
    /\ Len(checks) < MaxChecks
    /\ \E err \in verifyOutcomes(wh, delivery.payload, delivery.headers, defaultTolerance, now) :
          LET r == verifyAndParse(err, delivery.payload, NilTarget)
          IN  checks' = Append(checks, [delivery |-> delivery, toleranceSec |-> defaultTolerance,
                                        now |-> now, out |-> r.out, target |-> r.target])
    /\ UNCHANGED <<client, wh, called, callVars, meIn, meOut, now, sent, delivery>>

NextVerify ==
    \/ \E s \in VerifierSecrets : NewWebhook(s)
    \/ \E s \in SignerSecrets, p \in Payloads, id \in MessageIDs : GenerateTestHeaders(s, p, id)
    \/ \E d \in ClockSteps : Tick(d)
    \/ \E e \in Edits : Edit(e)
    \/ Verify
    \/ \E t \in Tolerances : VerifyWithTolerance(t)

SpecVerify == Init /\ [][NextVerify]_vars

\* ---- a delivery in the hands of someone who replays or rearranges it
TamperSecrets ==
    {<<"w", "h", "s", "e", "c", "_", "Y", "Q", "=", "=">>,
     <<"w", "h", "s", "e", "c", "_", "d", "G", "V", "z", "d", "C", "1", "z", "Z", "W", "N", "y", "Z", "X", "Q", "=">>}

\* What can be done to a delivery while its signature is kept or rearranged:
\* the signed content cut at other dots, the id or the timestamp replaced,
\* the payload replaced, the signature header rebuilt from several entries, a
\* second spelling of a header name added.
TamperEdits ==
    {[kind |-> "resplit", first |-> c[1], second |-> c[2]] :
        c \in {<<1, 2>>, <<1, 3>>, <<2, 3>>}}
    \cup {[kind |-> "field", name |-> HeaderID, value |-> <<"m", "s", "g", "_", "2">>],
          [kind |-> "field", name |-> HeaderTimestamp, value |-> <<"9", "9", "9">>]}
    \cup {[kind |-> "payload", payload |-> p] : p \in Payloads}
    \cup {[kind |-> "entries", entries |-> l] : l \in EntryLists}
    \cup {[kind |-> "collide", name |-> HeaderSignature, same |-> b,
           value |-> <<"v", "1", ",", "!", "!">>] : b \in BOOLEAN}
    \cup {[kind |-> "collide", name |-> HeaderID, same |-> FALSE, value |-> <<"x">>]}

NextTamper ==
    \/ \E s \in TamperSecrets : NewWebhook(s)
    \/ \E s \in TamperSecrets, p \in Payloads,
          id \in {<<"m", "s", "g", "_", "1">>, <<"m", ".", "9", "9", "9">>} :
          GenerateTestHeaders(s, p, id)
    \/ \E d \in {300, 301} : Tick(d)
    \/ \E e \in TamperEdits : Edit(e)
    \/ Verify
    \/ VerifyAndParse

SpecTamper == Init /\ [][NextTamper]_vars

\* ------------------------------------------------- mapError applied directly
ErrStatuses ==
    {100, 301, 304, 400, 401, 402, 403, 404, 405, 408, 409, 410, 418, 422, 429,
     451, 500, 501, 502, 503, 504, 599}

TopLevelBody ==
    [valid |-> TRUE, errMessage |-> "", errCode |-> "", validationErrors |-> NilMap,
     message |-> "top", code |-> "top_code"]

EmptyObjectBody == [ZeroErrBody EXCEPT !.valid = TRUE]

ErrBodies == {GoodBody, FieldsBody, BadBody, TopLevelBody, EmptyObjectBody}

ErrHeaders ==
    RetryAfterHeaders \cup
    {[retryAfter |-> <<"0">>], [retryAfter |-> <<"+", "7">>],
     [retryAfter |-> <<"-", "5">>], [retryAfter |-> <<"1", "2", "0">>],
     [retryAfter |-> <<"3", "0", "s">>]}

InitMapError ==
    /\ InitCall
    /\ meIn \in [kind : {"args"}, status : ErrStatuses, body : ErrBodies,
                 requestID : {"", "req_1"}, headers : ErrHeaders]

ApplyMapError ==
    /\ meOut = None
    /\ meOut' = mapError(meIn.status, meIn.body, meIn.requestID, meIn.headers)
    /\ UNCHANGED <<client, wh, called, callVars, meIn, hookVars>>

NextMapError == ApplyMapError

SpecMapError == InitMapError /\ [][NextMapError]_vars

\* ------------------------------------------------------------------ claims
\* The latest dispatch ended in a response whose body was read.
GotResponse == last.kind = "outcome" /\ last.outcome.type = "response"

\* The sleep of n seconds that follows a rate-limit response.
RetryAfterSleepOf(n) == <<[kind |-> "retryAfter", ms |-> n * 1000]>>

\* The seconds the latest response asks the client to wait: its Retry-After
\* header when that is an integer, 60 otherwise.
SecondsAsked == IF last.outcome.headers.retryAfter = <<"3", "0">> THEN 30 ELSE 60

\* C1: a response with status 401, 403, 404, 400 or 422 ends the call at that
\* attempt with the error classified from it, without a sleep, and a finished
\* call never dispatches again; so a first response of that kind leaves the
\* call with exactly one dispatch, whatever the retry count.
C1_ClientErrorEndsCall ==
    /\ [](GotResponse /\ last.outcome.status \in {400, 401, 403, 404, 422}
            => /\ pc = "done"
               /\ slept = <<>>
               /\ result.status = last.outcome.status
               /\ result.kind =
                     CASE last.outcome.status = 401 -> "AuthenticationError"
                       [] last.outcome.status = 403 -> "ForbiddenError"
                       [] last.outcome.status = 404 -> "NotFoundError"
                       [] OTHER -> "ValidationError")
    /\ [][pc = "done" => pc' = "done" /\ dispatches' = dispatches /\ slept' = slept]_vars

C1_Witness ==
    /\ pc = "done" /\ dispatches = 1 /\ maxRetries = 3
    /\ GotResponse /\ last.outcome.status = 404
    /\ result.kind = "NotFoundError"

\* C2 as stated: n responses with status 500 followed by any 2xx response,
\* the context live, make the call return nil.
C2_AnySuccessStatusReturnsNil ==
    (GotResponse /\ last.outcome.status \in 200..299
        /\ fails500 = dispatches - 1 /\ ctxErr = "")
    => (pc = "done" /\ result.kind = "nil")

\* C2 amended: n responses with status 500 followed by a 2xx response that
\* needs no deserialization (status 204 or no output target) or whose body
\* deserializes, the context live, make the call return nil after exactly
\* n+1 dispatches; the output is filled exactly when a target was given and
\* the status is not 204.
C2_RetryThenSuccess ==
    (GotResponse /\ last.outcome.status \in 200..299
        /\ fails500 = dispatches - 1 /\ ctxErr = ""
        /\ (last.outcome.status = 204 \/ ~req.hasOut \/ last.outcome.body.valid))
    => /\ pc = "done"
       /\ result.kind = "nil"
       /\ result.outWritten = (req.hasOut /\ last.outcome.status # 204)
       /\ dispatches = fails500 + 1

C2_Witness ==
    /\ pc = "done" /\ maxRetries = 3 /\ fails500 = 2 /\ dispatches = 3
    /\ GotResponse /\ last.outcome.status = 200
    /\ result = Success(TRUE)

\* C3: after a 429 response with attempts remaining the call does not return;
\* the one sleep that precedes the next dispatch lasts the number of seconds
\* of the Retry-After header, 60 when the header is absent or not an integer,
\* and it is not a backoff sleep.
C3_RetryAfterSleep ==
    /\ [](GotResponse /\ last.outcome.status = 429
            => /\ dispatches <= maxRetries => pc \in {"sleep", "loop"}
               /\ pc # "done" => slept = RetryAfterSleepOf(SecondsAsked))
    /\ [][(GotResponse /\ last.outcome.status = 429 /\ dispatches' = dispatches + 1)
            => (pc = "loop" /\ slept = RetryAfterSleepOf(SecondsAsked))]_vars

C3_Witness ==
    /\ pc = "loop" /\ dispatches = 2 /\ attempt = 2
    /\ GotResponse /\ last.outcome.status = 429
    /\ last.outcome.headers.retryAfter = <<"3", "0">>
    /\ slept = RetryAfterSleepOf(30)

\* C4: once a cancellation or deadline has fired during a sleep between two
\* attempts, the call leaves that sleep only by returning a TimeoutError; it
\* does not go on to another dispatch.
C4_CancelAbortsSleep ==
    [][(pc = "sleep" /\ firedIn = "sleep")
         => /\ dispatches' = dispatches
            /\ pc' = "sleep" \/ (pc' = "done" /\ result'.kind = "TimeoutError")]_vars

\* C5: a call during which the context was cancelled, and that dispatched at
\* all, returns a TimeoutError and no other kind.
C5_CancelledCallReturnsTimeout ==
    (pc = "done" /\ ctxErr # "" /\ dispatches > 0) => result.kind = "TimeoutError"

\* C6: a call that ends on a retryable outcome (transport failure, body read
\* failure, 429, other non-2xx outside 400, 401, 403, 404, 422) with the
\* context live has made exactly maxRetries+1 dispatches and returns the
\* error classified from that final outcome.
C6_ExhaustedReturnsLastError ==
    LET o == last.outcome
    IN  (pc = "done" /\ ctxErr = "" /\ last.kind = "outcome"
            /\ (o.type = "response" => o.status \notin (200..299) \cup {400, 401, 403, 404, 422}))
        => /\ dispatches = maxRetries + 1
           /\ CASE o.type = "connErr" ->
                     result.kind = "NetworkError"
                     /\ result.message # "failed to read response body"
                [] o.type = "readFail" ->
                     result = NetworkError("failed to read response body")
                [] OTHER ->
                     /\ result.status = o.status
                     /\ result.kind = IF o.status = 429 THEN "RateLimitError" ELSE "APIError"
                     /\ result.requestID = o.requestID

C6_Witness ==
    /\ pc = "done" /\ ctxErr = "" /\ maxRetries = 3 /\ dispatches = 4
    /\ fails500 = 3
    /\ GotResponse /\ last.outcome.status = 429
    /\ result.kind = "RateLimitError"

\* C7: in a call given WithRequestTimeout(d), no dispatch that takes d or
\* longer delivers a response: d is the limit in force, not the client-wide
\* timeout.
C7_RequestTimeoutBoundsDispatch ==
    (pc # "idle" /\ rc.timeoutSet /\ GotResponse) => last.latency < rc.timeout

\* C8: a response with a 4xx status other than 429 ends the call at that
\* attempt.
C8_No4xxRetry ==
    (GotResponse /\ last.outcome.status \in 400..499 /\ last.outcome.status # 429)
    => pc = "done"

\* C9: mapError maps every non-2xx status to its kind (401, 403, 404, 400 and
\* 422, 429, every other status APIError), keeps the status, and hands a
\* ValidationError the field map of the envelope.
C9_ClassificationByStatus ==
    meOut.kind # "none"
    => /\ meOut.status = meIn.status
       /\ meOut.kind =
             CASE meIn.status = 401 -> "AuthenticationError"
               [] meIn.status = 403 -> "ForbiddenError"
               [] meIn.status = 404 -> "NotFoundError"
               [] meIn.status = 400 -> "ValidationError"
               [] meIn.status = 422 -> "ValidationError"
               [] meIn.status = 429 -> "RateLimitError"
               [] OTHER -> "APIError"
       /\ meIn.status \in {400, 422}
             => meOut.validationErrors =
                   IF meIn.body.valid THEN meIn.body.validationErrors ELSE {}

C9_Witness ==
    /\ meOut.kind = "ValidationError" /\ meIn.status = 422
    /\ meOut.validationErrors = {<<"name", <<"is required">>>>}

\* C10: New("") and NewWebhook("") panic, and no Client or Webhook value
\* exists for an empty credential.
C10_EmptyCredentialPanics ==
    /\ called.New = Arg("") => client = Panic
    /\ called.NewWebhook = Arg(<<>>) => wh = Panic
    /\ client.kind = "transport" => called.New.v # ""
    /\ wh.kind = "webhook" => called.NewWebhook.v # <<>>

C10_Witness ==
    /\ called.New = Arg("") /\ client = Panic
    /\ called.NewWebhook = Arg(<<>>) /\ wh = Panic

\* ---- claims about webhook verification
\* The verifier in hand is the one that generated the delivery.
SameVerifier == wh.kind = "webhook" /\ sent.kind = "sent" /\ sent.by = wh

\* The verifications made of the delivery as it was generated.
IntactChecks == {i \in DOMAIN checks : checks[i].delivery.edit = None}

\* C11: Verify on the headers GenerateTestHeaders made for the payload, on
\* the same verifier and with the clock advanced by no more than the
\* tolerance, succeeds, for every secret, payload and id, the empty id
\* included.
C11_GeneratedHeadersVerify ==
    \A i \in IntactChecks :
        (SameVerifier /\ checks[i].toleranceSec = defaultTolerance
            /\ checks[i].now - sent.at \in 0..defaultTolerance)
        => checks[i].out = Verified

C11_Witness ==
    /\ SameVerifier /\ wh.secret = <<>> /\ sent.id = <<>>
    /\ \E i \in IntactChecks :
          /\ checks[i].toleranceSec = defaultTolerance
          /\ checks[i].now - sent.at = defaultTolerance
          /\ checks[i].out = Verified

\* The text of a sequence of characters.
RECURSIVE Text(_)
Text(s) == IF s = <<>> THEN "" ELSE s[1] \o Text(Tail(s))

\* The header map holds the name, under some spelling.
Present(headers, name) == \E kv \in headers : ToLower(kv[1]) = name

\* The header map holds the name, and never with an empty value.
PresentWithValue(headers, name) ==
    /\ Present(headers, name)
    /\ \A kv \in headers : ToLower(kv[1]) = name => kv[2] # <<>>

MissingMessage(name) == "missing " \o Text(name) \o " header"

\* C12 as stated: when exactly one of the three headers is absent and the
\* other two are present, the verification fails with the message that names
\* the absent header.
C12_AbsentHeaderNamed ==
    \A i \in DOMAIN checks : \A h \in RequiredHeaders :
        (/\ ~Present(checks[i].delivery.headers, h)
         /\ \A g \in RequiredHeaders \ {h} : Present(checks[i].delivery.headers, g))
        => checks[i].out = WebhookVerificationError(MissingMessage(h))

\* C12 amended: when exactly one of the three headers is absent and the other
\* two are present with non-empty values, the verification fails with the
\* message that names the absent header.
C12_AbsentHeaderNamedAmongValues ==
    \A i \in DOMAIN checks : \A h \in RequiredHeaders :
        (/\ ~Present(checks[i].delivery.headers, h)
         /\ \A g \in RequiredHeaders \ {h} : PresentWithValue(checks[i].delivery.headers, g))
        => checks[i].out = WebhookVerificationError(MissingMessage(h))

C12_Witness ==
    \E i \in DOMAIN checks :
        /\ ~Present(checks[i].delivery.headers, HeaderSignature)
        /\ PresentWithValue(checks[i].delivery.headers, HeaderID)
        /\ PresentWithValue(checks[i].delivery.headers, HeaderTimestamp)
        /\ checks[i].out = WebhookVerificationError("missing webhook-signature header")

\* C13: with the payload and a signature valid for the id and timestamp of
\* the headers, VerifyWithTolerance rejects exactly when the timestamp is
\* further than the tolerance from the clock, in the past or in the future.
C13_RejectsExactlyOutsideTolerance ==
    \A i \in IntactChecks :
        SameVerifier
        => (checks[i].out # Verified
              <=> (checks[i].now - sent.at > checks[i].toleranceSec
                   \/ sent.at - checks[i].now > checks[i].toleranceSec))

C13_Witness ==
    /\ SameVerifier /\ Len(checks) = 2 /\ IntactChecks = {1, 2}
    /\ sent.at - now = defaultTolerance
    /\ checks[1].toleranceSec = defaultTolerance /\ checks[1].out = Verified
    /\ checks[2].toleranceSec < defaultTolerance
    /\ checks[2].out.kind = "WebhookVerificationError"

\* Two verifications under the same clock reading and tolerance.
SameClock(i, j) ==
    checks[i].now = checks[j].now /\ checks[i].toleranceSec = checks[j].toleranceSec

\* C14: a header map and the map with the three names, or one of them, in
\* other letter case and the same values, verified with the same payload,
\* clock and tolerance, give the same outcome.
C14_HeaderNamesCaseInsensitive ==
    \A i, j \in DOMAIN checks :
        (/\ checks[i].delivery.edit = None
         /\ checks[j].delivery.edit.kind = "respell"
         /\ SameClock(i, j))
        => checks[j].out = checks[i].out

C14_Witness ==
    \E i, j \in DOMAIN checks :
        /\ checks[i].delivery.edit = None /\ checks[i].out = Verified
        /\ checks[j].delivery.edit.kind = "respell"
        /\ \A kv \in checks[j].delivery.headers : kv[1] # ToLower(kv[1])
        /\ SameClock(i, j)
        /\ checks[j].out = Verified

\* C15: when headers verify for a payload, the same headers with a payload
\* that differs from it, under the same secret, clock and tolerance, are
\* rejected.
C15_TamperedPayloadRejected ==
    \A i, j \in DOMAIN checks :
        (/\ checks[i].out = Verified
         /\ checks[j].delivery.headers = checks[i].delivery.headers
         /\ checks[j].delivery.payload # checks[i].delivery.payload
         /\ SameClock(i, j))
        => checks[j].out.kind = "WebhookVerificationError"

C15_Witness ==
    \E i, j \in DOMAIN checks :
        /\ checks[i].out = Verified
        /\ checks[j].delivery.headers = checks[i].delivery.headers
        /\ checks[j].delivery.payload # checks[i].delivery.payload
        /\ SameClock(i, j)
        /\ checks[j].out = WebhookVerificationError("signature verification failed")

\* Two keys that HMAC takes for one: equal up to trailing zero bytes.
SameHmacKey(k1, k2) ==
    LET short == IF Len(k1) <= Len(k2) THEN k1 ELSE k2
        long  == IF Len(k1) <= Len(k2) THEN k2 ELSE k1
    IN  /\ SubSeq(long, 1, Len(short)) = short
        /\ \A n \in (Len(short) + 1)..Len(long) : long[n] = 0

\* C16 as stated: headers generated under secret string s1 are rejected by
\* Verify on a verifier built from any other secret string s2, for the same
\* payload and clock.
C16_OtherSecretStringRejected ==
    \A i \in IntactChecks :
        (wh.kind = "webhook" /\ called.NewWebhook.v # sent.secret
            /\ checks[i].toleranceSec = defaultTolerance)
        => checks[i].out.kind = "WebhookVerificationError"

\* C16 amended: headers generated under secret string s1 are rejected by
\* Verify on a verifier built from a secret string s2 whose key is another
\* HMAC key than that of s1, for the same payload and clock.
C16_OtherKeyRejected ==
    \A i \in IntactChecks :
        (wh.kind = "webhook" /\ ~SameHmacKey(wh.secret, sent.by.secret)
            /\ checks[i].toleranceSec = defaultTolerance)
        => checks[i].out.kind = "WebhookVerificationError"

C16_Witness ==
    /\ wh.kind = "webhook" /\ sent.kind = "sent" /\ now = sent.at
    /\ wh.secret # <<>> /\ sent.by.secret # <<>>
    /\ ~SameHmacKey(wh.secret, sent.by.secret)
    /\ \E i \in IntactChecks :
          /\ checks[i].toleranceSec = defaultTolerance
          /\ checks[i].out = WebhookVerificationError("signature verification failed")

\* C17: a signature header whose entries all carry a version other than v1
\* is rejected with a WebhookVerificationError, also when the signature of an
\* entry is the right MAC for the message.
C17_UnknownVersionRejected ==
    \A i \in DOMAIN checks :
        checks[i].delivery.edit.kind = "version"
        => checks[i].out.kind = "WebhookVerificationError"

C17_Witness ==
    /\ SameVerifier /\ now = sent.at
    /\ \E i \in DOMAIN checks :
          /\ checks[i].delivery.edit = [kind |-> "version", version |-> <<"v", "2">>]
          /\ checks[i].delivery.payload = sent.payload
          /\ checks[i].out = WebhookVerificationError("signature verification failed")

\* The retry count in force for the call: the per-call value when one was
\* supplied, the client's otherwise.
RetriesInForce == IF rc.maxRetries.set THEN rc.maxRetries.v ELSE client.maxRetries

\* C18: a call never makes more dispatches than the retry count in force
\* plus one, whatever the outcomes; retries after a 429 count like any
\* other. A budget below zero allows no dispatch.
C18_DispatchesWithinBudget ==
    pc # "idle"
    => dispatches <= (IF RetriesInForce + 1 > 0 THEN RetriesInForce + 1 ELSE 0)

C18_Witness ==
    /\ pc = "done" /\ rc.maxRetries = Set(1) /\ client.maxRetries = 3
    /\ dispatches = 2 /\ fails500 = 0
    /\ GotResponse /\ last.outcome.status = 429
    /\ result.kind = "RateLimitError"

\* C19: a call returns nil only after at least one dispatch, and only when
\* its latest dispatch received a 2xx response; this for every retry count,
\* zero and negative ones included.
C19_NilOnlyAfterSuccessResponse ==
    (pc = "done" /\ result.kind = "nil")
    => (dispatches >= 1 /\ GotResponse /\ last.outcome.status \in 200..299)

\* C20: a dispatch that fails at connection level while the context is done
\* ends the call at once with a TimeoutError carrying the context's error:
\* no sleep is started and no further dispatch is made.
C20_ConnFailureWithDoneContext ==
    /\ []((last.kind = "outcome" /\ last.outcome.type = "connErr" /\ last.ctxErr # "")
            => /\ pc = "done"
               /\ slept = <<>>
               /\ result = TimeoutError(last.ctxErr))
    /\ [][pc = "done" => pc' = "done" /\ dispatches' = dispatches /\ slept' = slept
                          /\ result' = result]_vars

C20_Witness ==
    /\ pc = "done" /\ maxRetries = 3 /\ dispatches = 2 /\ fails500 = 1
    /\ last.kind = "outcome" /\ last.outcome.type = "connErr"
    /\ last.ctxErr = "context canceled" /\ firedIn = "sleep"
    /\ result.kind = "TimeoutError"

\* The latest dispatch ended in a transport failure or in a response that the
\* retry policy sends to the backoff path, with the context live and attempts
\* remaining.
BackoffDue ==
    /\ last.kind = "outcome"
    /\ \/ last.outcome.type \in {"connErr", "readFail"}
       \/ /\ last.outcome.type = "response"
          /\ last.outcome.status \notin (200..299) \cup {400, 401, 403, 404, 422, 429}
    /\ last.ctxErr = ""
    /\ dispatches <= maxRetries

\* min(1000 * 2^k, 10000) for the small k of a call.
CurveMs(k) == IF 1000 * (2 ^ k) < 10000 THEN 1000 * (2 ^ k) ELSE 10000

C22_BackoffOnCurveForEveryIndex ==
    (pc = "sleep" /\ slept[1].kind = "backoff") =>
        LET curve == IF attempt >= 4 THEN 10000 ELSE 1000 * (2 ^ attempt)
        IN  slept[1].ms >= curve /\ slept[1].ms < curve + 1000

\* C23: the body is encoded once, before the first attempt, and every
\* dispatch of a call hands over the same request: the method, URL and body
\* bytes of the call's start, the bearer Authorization header, Content-Type
\* exactly when there is a body, Idempotency-Key exactly when the call was
\* given a non-empty key.
C23_SameWireRequestEveryAttempt ==
    /\ Cardinality(wires) <= 1
    /\ dispatches > 0 => wires # {}
    /\ \A w \in wires :
          /\ w.method = req.method
          /\ w.url = req.url
          /\ w.body = IF req.hasBody THEN Marshal(BodyValue("ok")) ELSE NilBytes
          /\ w.authorization = <<"Bearer " \o called.New.v>>
          /\ (w.contentType # <<>>) <=> req.hasBody
          /\ w.idempotencyKey =
                IF rc.idempotencyKey = "" THEN <<>> ELSE <<rc.idempotencyKey>>

C23_Witness ==
    /\ pc = "done" /\ dispatches = 4 /\ Cardinality(wires) = 1
    /\ req.hasBody /\ callerBody.content = 2 /\ rc.idempotencyKey = "key-1"
    /\ result.kind = "nil"

\* C24: a 2xx response ends the call at that attempt, with no sleep and no
\* further dispatch: the result is nil with the output untouched when the
\* status is 204 or no output was given, nil with the output filled when the
\* body decodes, and otherwise a plain Error, which is neither a NetworkError
\* nor an APIError.
C24_SuccessResponseEndsCall ==
    /\ []((GotResponse /\ last.outcome.status \in 200..299)
            => /\ pc = "done"
               /\ slept = <<>>
               /\ IF last.outcome.status = 204 \/ ~req.hasOut
                  THEN result = [kind |-> "nil", outWritten |-> FALSE]
                  ELSE IF last.outcome.body.valid
                  THEN result = [kind |-> "nil", outWritten |-> TRUE]
                  ELSE result.kind = "Error")
    /\ [][(GotResponse /\ last.outcome.status \in 200..299)
            => dispatches' = dispatches /\ result' = result /\ pc' = "done"]_vars

C24_Witness ==
    /\ pc = "done" /\ dispatches = 2 /\ GotResponse /\ last.outcome.status = 204
    /\ req.hasOut /\ ~last.outcome.body.valid /\ result.kind = "nil"
    /\ maxRetries = 3

\* ---- claims about deliveries that were replayed or rearranged
\* The id, timestamp and payload a delivery presents.
TripleOf(headers, payload) ==
    <<HeaderValue(headers, HeaderID), HeaderValue(headers, HeaderTimestamp), payload>>

\* The verifications made by Verify or VerifyWithTolerance.
VerifyChecks == {i \in DOMAIN checks : "target" \notin DOMAIN checks[i]}

\* The verifications made by VerifyAndParse.
ParseChecks == {i \in DOMAIN checks : "target" \in DOMAIN checks[i]}

\* The verifier holds the key the delivery was signed with.
SignerKeyInHand ==
    wh.kind = "webhook" /\ sent.kind = "sent" /\ SameHmacKey(wh.secret, sent.by.secret)

\* C25: under the signer's key, the signature header generated for a triple
\* (id, timestamp, payload) verifies for no other triple that differs from it
\* in at least one component, both timestamps being within the tolerance.
C25_SignatureBoundToTriple ==
    \A i \in DOMAIN checks :
        LET c == checks[i]
            d == c.delivery
            ts == ParseInt(HeaderValue(d.headers, HeaderTimestamp))
        IN  (/\ d.edit.kind \in {"resplit", "field", "payload"}
             /\ SignerKeyInHand
             /\ HeaderValue(d.headers, HeaderSignature)
                   = HeaderValue(sent.headers, HeaderSignature)
             /\ TripleOf(d.headers, d.payload) # TripleOf(sent.headers, sent.payload)
             /\ ts.ok /\ Abs(c.now - ts.v) <= c.toleranceSec
             /\ Abs(c.now - sent.at) <= c.toleranceSec)
            => c.out # Verified

\* C26: with the id and timestamp untouched and within the tolerance, a
\* signature header of several entries verifies exactly when one of them, at
\* whatever position, is the v1 entry with the expected MAC; entries of another
\* version, undecodable ones, ones with another MAC and malformed ones change
\* nothing.
C26_AnyGoodEntryVerifies ==
    \A i \in VerifyChecks :
        LET c == checks[i]
            e == c.delivery.edit
        IN  (e.kind = "entries" /\ Abs(c.now - sent.at) <= c.toleranceSec)
            => (c.out = Verified
                  <=> (SignerKeyInHand /\ \E k \in DOMAIN e.entries : e.entries[k] = "good"))

C26_Witness ==
    /\ Len(checks) = 1 /\ VerifyChecks = {1}
    /\ checks[1].delivery.edit.kind = "entries"
    /\ checks[1].delivery.edit.entries = <<"malformed", "v2good", "good">>
    /\ checks[1].now - sent.at = defaultTolerance
    /\ checks[1].out = Verified

\* C27: with the three headers present and the timestamp numeric and within
\* the tolerance, every verification that does not succeed fails with the
\* message "signature verification failed", whatever the reason.
C27_OneMessageForEveryMismatch ==
    \A i \in VerifyChecks :
        LET c == checks[i]
            d == c.delivery
            ts == ParseInt(HeaderValue(d.headers, HeaderTimestamp))
        IN  (/\ \A h \in RequiredHeaders : PresentWithValue(d.headers, h)
             /\ ts.ok /\ Abs(c.now - ts.v) <= c.toleranceSec
             /\ c.out # Verified)
            => c.out = WebhookVerificationError("signature verification failed")

\* C28: two calls of VerifyWithTolerance with the same verifier, payload,
\* header map, tolerance and clock reading return the same outcome, also when
\* the header map holds keys that differ only in letter case.
C28_SameInputsSameOutcome ==
    \A i \in VerifyChecks : \A j \in VerifyChecks :
        (checks[i].delivery = checks[j].delivery /\ SameClock(i, j))
        => checks[i].out = checks[j].out

\* C29: VerifyAndParse decodes the payload only after the verification has
\* succeeded: when the verification fails it returns that
\* WebhookVerificationError and leaves the target as it was, and when the
\* verification succeeds and the payload cannot be decoded it returns an
\* error that is not a WebhookVerificationError.
C29_ParseOnlyAfterVerified ==
    \A i \in ParseChecks :
        LET c == checks[i]
            d == c.delivery
            outs == verifyOutcomes(wh, d.payload, d.headers, c.toleranceSec, c.now)
        IN  /\ c.toleranceSec = defaultTolerance
            /\ Verified \notin outs
                 => c.out \in outs /\ c.out.kind = "WebhookVerificationError"
                    /\ c.target = NilTarget
            /\ c.out.kind = "WebhookVerificationError" => c.out \in outs /\ c.target = NilTarget
            /\ c.target # NilTarget => Verified \in outs /\ c.out = [kind |-> "nil"]
            /\ (outs = {Verified} /\ d.payload # <<"{", "}">>)
                 => c.out.kind \notin {"nil", "WebhookVerificationError"}
                    /\ c.target = NilTarget

C29_Witness ==
    /\ Len(checks) = 2 /\ ParseChecks = {1, 2} /\ SignerKeyInHand
    /\ checks[1].delivery.edit = None /\ checks[1].delivery.payload = <<"[", "]">>
    /\ checks[1].out.kind = "json.UnmarshalTypeError" /\ checks[1].target = NilTarget
    /\ checks[2].delivery.edit.kind = "payload" /\ checks[2].delivery.payload = <<"{", "}">>
    /\ checks[2].out = WebhookVerificationError("signature verification failed")
    /\ checks[2].target = NilTarget

\* C30: every verifier NewWebhook returns holds a key of at least one byte.
C30_VerifierKeyNonEmpty == wh.kind = "webhook" => Len(wh.secret) >= 1

====
